---- MODULE Spec2Model ----
(***************************************************************************)
(* Model of edflow/eval/pipeline.py: the EvalHook that stores the outputs  *)
(* of an evaluation epoch (artifact files, label arrays, meta.yaml), the   *)
(* callback dispatch, and the standalone replay of a stored epoch.         *)
(*                                                                         *)
(* Strings are sequences of one-character strings, so that replace, join,  *)
(* formatting and the truncation of fixed-width numpy strings are computed *)
(* character by character.                                                 *)
(***************************************************************************)
EXTENDS Integers, Sequences, FiniteSets, TLC

\* ------------------------------------------------------------------ bounds
\* len(self.data_in): the length of the input dataset.
DatasetLen == 2
\* Largest number of examples in one batch.
MaxBatch == 2
\* Number of (before_step, after_step) pairs the driving loop runs in total.
MaxSteps == 2
\* Number of epochs the driving loop starts on the hook.
MaxEpochs == 2
\* Largest value the step getter returns (global steps are 1..MaxGlobalStep).
MaxGlobalStep == 2
MaxCallbacks == 3

\* ----------------------------------------------------------------- strings
sSlash == <<"/">>
sDashes == <<"-", "-">>
sModelOutputs == <<"m", "o", "d", "e", "l", "_", "o", "u", "t", "p", "u", "t", "s">>
sLabels == <<"l", "a", "b", "e", "l", "s">>
sLatestEval == <<"e">>
sPng == <<"p", "n", "g">>
sNpy == <<"n", "p", "y">>
sTxt == <<"t", "x", "t">>
sImage == <<"i", "m", "a", "g", "e">>
sNp == <<"n", "p">>

Digit(d) == CASE d = 0 -> "0" [] d = 1 -> "1" [] d = 2 -> "2" [] d = 3 -> "3"
              [] d = 4 -> "4" [] d = 5 -> "5" [] d = 6 -> "6" [] d = 7 -> "7"
              [] d = 8 -> "8" [] d = 9 -> "9"

RECURSIVE NatStr(_)
NatStr(n) == IF n < 10 THEN <<Digit(n)>> ELSE NatStr(n \div 10) \o <<Digit(n % 10)>>

\* str(n) and "{:d}".format(n) of a Python int.
IntStr(n) == IF n < 0 THEN <<"-">> \o NatStr(0 - n) ELSE NatStr(n)

RECURSIVE Zeros(_)
Zeros(n) == IF n <= 0 THEN <<>> ELSE <<"0">> \o Zeros(n - 1)

\* "{:0>6d}".format(idx): right-aligned in a field of 6, filled with "0".
Pad6(idx) == Zeros(6 - Len(IntStr(idx))) \o IntStr(idx)

\* s.replace("/", "--")
RECURSIVE ReplaceSlash(_)
ReplaceSlash(s) ==
    IF s = <<>> THEN <<>>
    ELSE (IF Head(s) = "/" THEN sDashes ELSE <<Head(s)>>) \o ReplaceSlash(Tail(s))

\* os.path.join(a, b) on a POSIX system.
PathJoin(a, b) ==
    IF b # <<>> /\ Head(b) = "/" THEN b
    ELSE IF a = <<>> \/ a[Len(a)] = "/" THEN a \o b
    ELSE a \o sSlash \o b

\* The first w characters of s: what a numpy array of dtype <Uw keeps of s.
Truncate(s, w) == IF Len(s) <= w THEN s ELSE SubSeq(s, 1, w)

\* ------------------------------------------------------------- numpy values
\* A numpy value is [k, shape, d]: k is "i" (int64), "f" (float64, d counted
\* in halves: 3 stands for 1.5) or "U" (a string, d its characters); shape is
\* <<>> for a scalar and <<m>> for a vector, whose d is a tuple of m numbers.
IntVal(n) == [k |-> "i", shape |-> <<>>, d |-> n]
HalfVal(h) == [k |-> "f", shape |-> <<>>, d |-> h]
StrVal(s) == [k |-> "U", shape |-> <<>>, d |-> s]
VecVal(t) == [k |-> "i", shape |-> <<Len(t)>>, d |-> t]

\* example.dtype of an element taken out of an array: a numpy string scalar
\* has the width of its own text, not the width of the array it came from.
DtypeOf(x) ==
    IF x.k = "U" THEN [k |-> "U", w |-> IF Len(x.d) = 0 THEN 1 ELSE Len(x.d)]
    ELSE [k |-> x.k, w |-> 0]

\* list(np.shape(example))
ShapeOf(x) == x.shape

\* The value numpy stores when raw data of kind k is assigned into an array
\* of dtype dt: int64 -> float64 is exact, float64 -> int64 drops the
\* fraction, a string is cut to the width of the array.  Strings are only
\* ever assigned to string arrays, and numbers to number arrays.
CastRaw(raw, k, dt) ==
    CASE dt.k = "U" -> Truncate(raw, dt.w)
      [] dt.k = "i" /\ k = "i" -> raw
      [] dt.k = "f" /\ k = "f" -> raw
      [] dt.k = "f" /\ k = "i" -> 2 * raw
      [] dt.k = "i" /\ k = "f" ->
            IF raw >= 0 THEN raw \div 2 ELSE 0 - ((0 - raw) \div 2)

\* The fill of a file created by np.memmap(mode="w+"): all bytes zero.
ZeroRaw(dt) == IF dt.k = "U" THEN <<>> ELSE 0
ZeroCell(dt, exshape) ==
    IF exshape = <<>> THEN ZeroRaw(dt) ELSE [j \in 1..exshape[1] |-> ZeroRaw(dt)]

\* np.memmap(savepath, shape, mode="w+", dtype): a new zero-filled array of
\* shape [n] + exshape; slots are numbered 0..n-1.
NewArray(n, exshape, dt) ==
    [shape |-> <<n>> \o exshape, dtype |-> dt,
     data |-> [i \in 0..(n - 1) |-> ZeroCell(dt, exshape)]]

ExShape(arr) == Tail(arr.shape)

\* Does arr[idx] = x raise?  IndexError for an index outside -n..n-1;
\* ValueError for a vector assigned to a scalar slot or to a slot of another
\* length (a scalar broadcasts into a vector slot).
SetItemRaises(arr, idx, x) ==
    \/ idx >= arr.shape[1]
    \/ idx < 0 - arr.shape[1]
    \/ /\ x.shape # <<>>
       /\ x.shape # ExShape(arr)
       /\ ~(ExShape(arr) # <<>> /\ x.shape = <<1>>)

\* The cell arr[idx] = x stores.
SetItemCell(arr, x) ==
    IF ExShape(arr) = <<>> THEN CastRaw(x.d, x.k, arr.dtype)
    ELSE [j \in 1..ExShape(arr)[1] |->
            CastRaw(IF x.shape = <<>> THEN x.d
                    ELSE IF x.shape = <<1>> THEN x.d[1] ELSE x.d[j],
                    x.k, arr.dtype)]

\* A negative index counts from the end of the array.
Slot(arr, idx) == IF idx < 0 THEN idx + arr.shape[1] ELSE idx

\* arr after arr[idx] = x (when it does not raise).
SetItem(arr, idx, x) ==
    [arr EXCEPT !.data[Slot(arr, idx)] = SetItemCell(arr, x)]

\* arr[i] as a numpy value.
GetItem(arr, i) == [k |-> arr.dtype.k, shape |-> ExShape(arr), d |-> arr.data[i]]

\* a == b for numpy values: numbers compare by value whatever their dtype,
\* strings by their text; values of different shape are not equal.
AsHalves(raw, k) == IF k = "i" THEN 2 * raw ELSE raw
ValEq(a, b) ==
    /\ a.shape = b.shape
    /\ (a.k = "U") = (b.k = "U")
    /\ IF a.k = "U" THEN a.d = b.d
       ELSE IF a.shape = <<>> THEN AsHalves(a.d, a.k) = AsHalves(b.d, b.k)
       ELSE \A j \in 1..a.shape[1] : AsHalves(a.d[j], a.k) = AsHalves(b.d[j], b.k)

\* ------------------------------------------------------------ small helpers
Range(s) == {s[i] : i \in 1..Len(s)}
MaxOf(S) == CHOOSE m \in S : \A x \in S : x <= m
MinOf(S) == CHOOSE m \in S : \A x \in S : m <= x
\* The last position at which sequence s holds x.
LastPos(s, x) == MaxOf({i \in 1..Len(s) : s[i] = x})
\* A Python dict as a function: d.update(e) lets the entries of e win.
Update(d, e) == e @@ d
EmptyDict == <<>>

\* --------------------------------------------------------- artifact saving
\* A datum of the step result: an ndarray [t |-> "ndarray", shape, id], a
\* Python str [t |-> "str", id] or any other object [t |-> "other", id].
Ndarray(shape, id) == [t |-> "ndarray", shape |-> shape, id |-> id]
PyStr(id) == [t |-> "str", shape |-> <<>>, id |-> id]
PyObj(id) == [t |-> "other", shape |-> <<>>, id |-> id]

isimage(np_arr) ==
    Len(np_arr.shape) = 3 /\ np_arr.shape[3] \in {1, 3, 4}

\* determine_saver: the saver and the file ending, or the error raised.  The
\* str branch names txt_saver, which the module never defines: evaluating
\* the return statement raises NameError.
determine_saver(py_obj) ==
    IF py_obj.t = "ndarray"
    THEN IF isimage(py_obj)
         THEN [ok |-> TRUE, saver |-> "image_saver", ending |-> sPng, err |-> "none"]
         ELSE [ok |-> TRUE, saver |-> "np_saver", ending |-> sNpy, err |-> "none"]
    ELSE IF py_obj.t = "str"
         THEN [ok |-> FALSE, saver |-> "none", ending |-> sTxt, err |-> "NameError"]
         ELSE [ok |-> FALSE, saver |-> "none", ending |-> <<>>,
               err |-> "NotImplementedError"]

\* determine_loader: the loader name of a file ending, or ValueError.
determine_loader(ext) ==
    IF ext = sPng THEN [ok |-> TRUE, name |-> sImage]
    ELSE IF ext = sNpy THEN [ok |-> TRUE, name |-> sNp]
    ELSE [ok |-> FALSE, name |-> <<>>]

\* save_example(savepath, datum), savepath ending in ".{}": the formatted
\* path and the loader name; ok is FALSE when determine_saver or
\* determine_loader raises, and then no file is written.
save_example(savepath, datum) ==
    LET sv == determine_saver(datum)
        ld == determine_loader(sv.ending)
    IN  [ok |-> sv.ok /\ ld.ok,
         path |-> savepath \o sv.ending,
         loader |-> ld.name,
         content |-> [saver |-> sv.saver, datum |-> datum]]

\* The fields of a step result are a sequence of [n |-> name, v |-> values],
\* in the insertion order of the Python dict.
FieldNames(example) == {example[j].n : j \in 1..Len(example)}
FieldVals(example, name) ==
    example[CHOOSE j \in 1..Len(example) : example[j].n = name].v

\* sub_dirs[i] when the partition values are left out of the path.
SubDirFlat(example, sub_dir_keys, m, i) == <<>>

\* sub_dirs[i] after the loop over sub_dir_keys[1..m]: one "key:value"
\* segment per key, "/" replaced by "--", joined in list order.
RECURSIVE SubDir(_, _, _, _)
SubDir(example, sub_dir_keys, m, i) ==
    IF m = 0 THEN <<>>
    ELSE PathJoin(SubDir(example, sub_dir_keys, m - 1, i),
                  ReplaceSlash(sub_dir_keys[m] \o <<":">>
                               \o FieldVals(example, sub_dir_keys[m])[i]))

\* save_output(root, example, index, sub_dir_keys), example being the
\* value found at the keypath.  The result has
\*   ok:         FALSE when _delget or save_example raised;
\*   writes:     the files written, in order, as [path, content, idx, key];
\*   path_dicts: index -> the dict (key "field:loader" -> path) as a sequence
\*               of [k, path] in field order; it is assigned per position,
\*               so a repeated index keeps its last position's dict.
save_output(root, example, index, sub_dir_keys) ==
    LET n == Len(index)
        delget_ok == /\ \A j \in 1..Len(sub_dir_keys) :
                          sub_dir_keys[j] \in FieldNames(example)
                     /\ \A j, l \in 1..Len(sub_dir_keys) :
                          sub_dir_keys[j] = sub_dir_keys[l] => j = l
        rest == SelectSeq(example, LAMBDA e : e.n \notin Range(sub_dir_keys))
        F == Len(rest)
        roots == [i \in 1..n |->
                    PathJoin(root, SubDir(example, sub_dir_keys,
                                          Len(sub_dir_keys), i))]
        saved(i, f) ==
            save_example(PathJoin(roots[i], rest[f].n \o <<"_">>
                                  \o Pad6(index[i]) \o <<".">>),
                         rest[f].v[i])
        key(i, f) == rest[f].n \o <<":">> \o saved(i, f).loader
        \* the pairs (position, field) in loop order, numbered 1..n*F
        pos(m) == ((m - 1) \div F) + 1
        fld(m) == ((m - 1) % F) + 1
        bad == {m \in 1..(n * F) : ~saved(pos(m), fld(m)).ok}
        last == IF bad = {} THEN n * F ELSE MinOf(bad) - 1
    IN  IF ~delget_ok
        THEN [ok |-> FALSE, dirs |-> {}, writes |-> <<>>, path_dicts |-> EmptyDict]
        ELSE [ok |-> bad = {},
              dirs |-> {roots[i] : i \in 1..n},
              writes |-> [m \in 1..last |->
                            [path |-> saved(pos(m), fld(m)).path,
                             content |-> saved(pos(m), fld(m)).content,
                             idx |-> index[pos(m)],
                             key |-> key(pos(m), fld(m))]],
              path_dicts |->
                 IF bad # {} THEN EmptyDict
                 ELSE [idx \in Range(index) |->
                        [f \in 1..F |->
                           [k |-> key(LastPos(index, idx), f),
                            path |-> saved(LastPos(index, idx), f).path]]]]

\* The file system after the writes of a sequence of [path, content]: a
\* later write to the same path replaces the earlier one.
WriteAll(fs, writes) ==
    [p \in {writes[m].path : m \in 1..Len(writes)} |->
        writes[MaxOf({m \in 1..Len(writes) : writes[m].path = p})].content] @@ fs

\* s.split(sep) for a separator of one character.
RECURSIVE Split(_, _)
Split(s, sep) ==
    LET hits == {j \in 1..Len(s) : s[j] = sep}
    IN  IF hits = {} THEN <<s>>
        ELSE <<SubSeq(s, 1, MinOf(hits) - 1)>>
             \o Split(SubSeq(s, MinOf(hits) + 1, Len(s)), sep)

\* sep.join(parts)
RECURSIVE Join(_, _)
Join(parts, sep) ==
    IF parts = <<>> THEN <<>>
    ELSE IF Len(parts) = 1 THEN parts[1]
    ELSE parts[1] \o <<sep>> \o Join(Tail(parts), sep)

DigitVal(c) == CHOOSE d \in 0..9 : Digit(d) = c

RECURSIVE DigitsVal(_)
DigitsVal(s) ==
    IF s = <<>> THEN 0 ELSE 10 * DigitsVal(SubSeq(s, 1, Len(s) - 1)) + DigitVal(s[Len(s)])

\* int(s) of a str: an optional sign and decimal digits, ValueError otherwise.
ParseInt(s) ==
    LET signed == s # <<>> /\ s[1] \in {"-", "+"}
        digits == IF signed THEN Tail(s) ELSE s
        ok == digits # <<>> /\ \A j \in 1..Len(digits) :
                                  digits[j] \in {Digit(d) : d \in 0..9}
    IN  [ok |-> ok,
         val |-> IF ~ok THEN 0
                 ELSE IF signed /\ s[1] = "-" THEN 0 - DigitsVal(digits)
                 ELSE DigitsVal(digits)]

\* "{}_{:0>6d}.{{}}".format(n, idx): the file name of save_output, its
\* extension still to be filled in by save_example.
savename(n, idx) == n \o <<"_">> \o Pad6(idx) \o <<".">>

\* decompose_name with the name cut at its first "_".
decompose_name_first(name) ==
    LET splits == Split(name, "_")
        rest == Join(Tail(splits), "_")
        datum_name == splits[1]
        parts == Split(rest, ".")
        num == IF Len(parts) = 2 THEN ParseInt(parts[1]) ELSE [ok |-> FALSE, val |-> 0]
    IN  IF Len(parts) # 2 \/ ~num.ok
        THEN [ok |-> FALSE, index |-> 0, datum_name |-> <<>>, ending |-> <<>>]
        ELSE [ok |-> TRUE, index |-> num.val, datum_name |-> datum_name,
              ending |-> parts[2]]

\* decompose_name: (index, datum_name, ending) of a file name, or the
\* exception of the unpacking or of int().
decompose_name(name) ==
    LET splits == Split(name, "_")
        rest == splits[Len(splits)]
        datum_name == Join(SubSeq(splits, 1, Len(splits) - 1), "_")
        parts == Split(rest, ".")
        num == IF Len(parts) = 2 THEN ParseInt(parts[1]) ELSE [ok |-> FALSE, val |-> 0]
    IN  IF Len(parts) # 2 \/ ~num.ok
        THEN [ok |-> FALSE, index |-> 0, datum_name |-> <<>>, ending |-> <<>>]
        ELSE [ok |-> TRUE, index |-> num.val, datum_name |-> datum_name,
              ending |-> parts[2]]

\* ---------------------------------------------------------------- callbacks
\* A callback reference is either a callable or a dotted import path:
\* [str |-> FALSE, mod, attr] is the function object attr of module mod,
\* [str |-> TRUE, mod, attr] the string "mod.attr".  A Python dict of
\* callbacks is a sequence of [name, cb] in insertion order.
Fn(mod, attr) == [str |-> FALSE, mod |-> mod, attr |-> attr]
Dotted(mod, attr) == [str |-> TRUE, mod |-> mod, attr |-> attr]

\* The importable modules and their attributes.
ModuleAttrs(mod) == IF mod = "m" THEN {"f", "g", "h"} ELSE {}

DictNames(d) == {d[j].name : j \in 1..Len(d)}
DictGet(d, name) == d[CHOOSE j \in 1..Len(d) : d[j].name = name].cb

\* d.update(e) on insertion-ordered dicts: a name already in d keeps its
\* place and takes the value of e; new names are appended in e's order.
DictUpdate(d, e) ==
    [j \in 1..Len(d) |->
        IF d[j].name \in DictNames(e)
        THEN [name |-> d[j].name, cb |-> DictGet(e, d[j].name)] ELSE d[j]]
    \o SelectSeq(e, LAMBDA x : x.name \notin DictNames(d))

\* Does importing and resolving the reference cb fail?
ResolveFails(cb) == cb.str /\ cb.attr \notin ModuleAttrs(cb.mod)

\* load_callbacks: strings are imported, callables pass through; the first
\* reference that cannot be resolved raises and nothing is returned.
load_callbacks_lazy(callbacks) ==
    [ok |-> TRUE,
     cbs |-> [j \in 1..Len(callbacks) |->
                [name |-> callbacks[j].name,
                 cb |-> Fn(callbacks[j].cb.mod, callbacks[j].cb.attr)]]]

load_callbacks(callbacks) ==
    [ok |-> \A j \in 1..Len(callbacks) : ~ResolveFails(callbacks[j].cb),
     cbs |-> [j \in 1..Len(callbacks) |->
                [name |-> callbacks[j].name,
                 cb |-> Fn(callbacks[j].cb.mod, callbacks[j].cb.attr)]]]

\* retrieve(config, "eval_pipeline/callbacks", default={}) and
\* retrieve(config, "eval_pipeline/callback_kwargs", default={}): a config is
\* [dataset, callbacks, callback_kwargs], the last a sequence of
\* [name, kw] holding the keyword arguments given for that name.
config2cbdict(config) ==
    [callbacks |-> config.callbacks, kwargs |-> config.callback_kwargs]

\* callback_kwargs.get(n, {}): "none" stands for the empty kwargs.
KwargsGet(cb_kwargs, n) ==
    IF \E j \in 1..Len(cb_kwargs) : cb_kwargs[j].name = n
    THEN cb_kwargs[CHOOSE j \in 1..Len(cb_kwargs) : cb_kwargs[j].name = n].kw
    ELSE "none"

\* -------------------------------------------------------------------- state
VARIABLES
    \* the EvalHook object
    attrs,        \* the attributes assigned so far (what hasattr sees)
    root,         \* self.root
    save_root,    \* self.save_root
    label_arrs,   \* self.label_arrs: [none, d], d: key -> the memmap's file
    idxs,         \* self.idxs
    cbacks,       \* self.cbacks
    config,       \* self.config
    sdks,         \* self.sdks
    lk,           \* self.lk: "None" or the key of the label values
    cb_paths,     \* self.cb_names, self.cb_paths: the references to load
    \* the file system
    fs_dirs,      \* the directories made
    fs_files,     \* artifact path -> content
    fs_labels,    \* label file name -> array
    fs_meta,      \* store directory -> the meta.yaml written there
    \* the loop that drives the hook
    phase, nsteps, nepochs,
    \* history
    log,          \* what after_epoch did in this epoch, in order
    given,        \* key -> index -> the value last given in this epoch
    epoch_ok,     \* no after_step of this epoch has raised
    last_step,    \* the latest after_step: its input and indices, whether
                  \* it was the first of its epoch, whether it returned
    cur_g,        \* what the step getter returned to the latest before_epoch
    prev,         \* the file system as it was at the latest before_epoch
    \* the latest call of standalone_eval_meta_dset
    re_args,      \* its arguments, and the position of the callback that raises
    re_callbacks, \* the caller's callbacks dict after the call
    re_env,       \* the config, root and loaded callbacks it dispatched with
    re_calls,     \* the callbacks it invoked, in order
    re_ret,       \* how it ended: [state, at, outputs]
    \* the latest direct calls of the module's functions
    so_call,      \* save_output: its arguments and what it did
    se_call,      \* save_example: its arguments and what it did
    dn_call,      \* decompose_name: the file name and what it returned
    \* objects that outlive one hook
    active,       \* self._active of a TemplateEvalHook: "unset", "True", "False"
    default_callbacks,  \* the dict that is the default of __init__'s callbacks
    ctor          \* the latest construction after the first: its arguments

hookvars == <<attrs, root, save_root, label_arrs, idxs, cbacks, config, sdks, lk, cb_paths>>
fsvars == <<fs_dirs, fs_files, fs_labels, fs_meta>>
loopvars == <<phase, nsteps, nepochs>>
histvars == <<log, given, epoch_ok, last_step, cur_g, prev>>
revars == <<re_args, re_callbacks, re_env, re_calls, re_ret>>
fnvars == <<so_call, se_call, dn_call>>
ctorvars == <<default_callbacks, ctor>>
objvars == <<active, default_callbacks, ctor>>
vars == <<hookvars, fsvars, loopvars, histvars, revars, fnvars, objvars>>

\* ------------------------------------------------------------ label arrays
\* The name of a label file: the directory, the key with "/" replaced by
\* "--", the shape and the dtype (savepath of after_step).
LabelFile(dir, k, shape, dtype) ==
    [dir |-> dir, k |-> ReplaceSlash(k), shape |-> shape, dtype |-> dtype]

\* The distinct elements of s in the order of their first occurrence.
RECURSIVE Dedup(_)
Dedup(s) ==
    IF s = <<>> THEN <<>>
    ELSE LET r == Dedup(SubSeq(s, 1, Len(s) - 1))
         IN  IF s[Len(s)] \in Range(r) THEN r ELSE Append(r, s[Len(s)])

RECURSIVE Concat(_)
Concat(ss) == IF ss = <<>> THEN <<>> ELSE Head(ss) \o Concat(Tail(ss))

PdKeys(pd) == [f \in 1..Len(pd) |-> pd[f].k]
PdGet(pd, k) == pd[CHOOSE f \in 1..Len(pd) : pd[f].k = k].path

\* label_vals after the merge of the stored paths (lines 234-241): the
\* label values of the step result, then one list per path key, holding
\* path_dicts[idx][key] for every idx of idxs whose dict has the key.  Only
\* the keys of path_dicts[idxs[0]] are turned into numpy arrays (np); the
\* lists of the other keys stay Python lists of str.
MergeLabelVals(label_vals, path_dicts, index) ==
    LET n == Len(index)
        keys == Dedup(Concat([i \in 1..n |-> PdKeys(path_dicts[index[i]])]))
        with(k) == SelectSeq([i \in 1..n |-> i],
                             LAMBDA i : k \in Range(PdKeys(path_dicts[index[i]])))
    IN  [j \in 1..Len(label_vals) |->
            [k |-> label_vals[j].k, v |-> label_vals[j].v, np |-> TRUE]]
        \o [j \in 1..Len(keys) |->
            [k |-> keys[j],
             v |-> [q \in 1..Len(with(keys[j])) |->
                     StrVal(PdGet(path_dicts[index[with(keys[j])[q]]], keys[j]))],
             np |-> keys[j] \in Range(PdKeys(path_dicts[index[1]]))]]

\* The allocation loop (lines 243-257), run when label_arrs is None: one
\* memmap per key of label_vals, shaped [len(data_in)] + shape of the first
\* value, with the dtype of the first value.  A first value that is a plain
\* Python str has no dtype: AttributeError, and the keys before it stay
\* allocated.
AllocLabelArrs(lvs, dir, fs) ==
    LET bad == {j \in 1..Len(lvs) : ~lvs[j].np}
        last == IF bad = {} THEN Len(lvs) ELSE MinOf(bad) - 1
        name(j) == LabelFile(dir, lvs[j].k,
                             <<DatasetLen>> \o ShapeOf(lvs[j].v[1]),
                             DtypeOf(lvs[j].v[1]))
    IN  [ok |-> bad = {},
         d |-> [k \in {lvs[j].k : j \in 1..last} |->
                  name(CHOOSE j \in 1..last : lvs[j].k = k)],
         fs |-> [f \in {name(j) : j \in 1..last} |->
                   NewArray(DatasetLen, Tail(f.shape), f.dtype)] @@ fs]

\* The write loop (lines 259-262) from its m-th assignment on, the
\* assignments numbered key by key, position by position.  It stops at the
\* first assignment that raises: KeyError for a key without array,
\* IndexError for a list shorter than idxs, or the error of the assignment.
RECURSIVE WriteLabels(_, _, _, _, _)
WriteLabels(lvs, index, d, fs, m) ==
    LET n == Len(index)
        j == ((m - 1) \div n) + 1
        i == ((m - 1) % n) + 1
    IN  IF m > Len(lvs) * n THEN [ok |-> TRUE, fs |-> fs]
        ELSE IF \/ lvs[j].k \notin DOMAIN d
                \/ i > Len(lvs[j].v)
                \/ SetItemRaises(fs[d[lvs[j].k]], index[i], lvs[j].v[i])
        THEN [ok |-> FALSE, fs |-> fs]
        ELSE WriteLabels(lvs, index, d,
                 [fs EXCEPT ![d[lvs[j].k]] = SetItem(@, index[i], lvs[j].v[i])],
                 m + 1)

\* ------------------------------------------------------------- the inputs
\* batch["index_"]: up to MaxBatch dataset indices, in any order, repeats
\* included.
IndexBatches ==
    UNION {[1..n -> 0..(DatasetLen - 1)] : n \in 1..MaxBatch}

fIm == <<"i", "m">>
fC == <<"c">>
kSc == <<"s", "c">>
kEx == <<"e", "x">>
PartShort == <<"a">>
PartLong == <<"b", "b">>

\* The label values of a step of n examples, by kind: int64 scalars, float64
\* scalars with a fraction, int64 vectors, int64 scalars with a second
\* field, or no label values at all.  The value depends on the position in
\* the batch, so that two writes to one slot can be told apart.
LabelKinds == {"int", "float", "vec", "extra", "missing"}
StepLabels(n, kind) ==
    CASE kind = "int" -> <<[k |-> kSc, v |-> [q \in 1..n |-> IntVal(q)]]>>
      [] kind = "float" -> <<[k |-> kSc, v |-> [q \in 1..n |-> HalfVal(2 * q + 1)]]>>
      [] kind = "vec" -> <<[k |-> kSc, v |-> [q \in 1..n |-> VecVal(<<q, q + 1>>)]]>>
      [] kind = "extra" -> <<[k |-> kSc, v |-> [q \in 1..n |-> IntVal(q)]],
                             [k |-> kEx, v |-> [q \in 1..n |-> IntVal(q + 2)]]>>
      [] kind = "missing" -> <<>>

\* The values of the partition field "c": all short, all long, or the first
\* short and the others long.
PartKinds == {"short", "long", "mixed"}
StepParts(n, kind) ==
    [q \in 1..n |->
        CASE kind = "short" -> PartShort
          [] kind = "long" -> PartLong
          [] kind = "mixed" -> IF q = 1 THEN PartShort ELSE PartLong]

\* The values of the output field "im": images, plain arrays, the first an
\* image and the others plain arrays, text, or objects of another type.
DatumKinds == {"image", "array", "both", "text", "object"}
StepData(n, kind) ==
    [q \in 1..n |->
        CASE kind = "image" -> Ndarray(<<8, 8, 3>>, q)
          [] kind = "array" -> Ndarray(<<4>>, q)
          [] kind = "both" -> IF q = 1 THEN Ndarray(<<8, 8, 3>>, q)
                              ELSE Ndarray(<<4>>, q)
          [] kind = "text" -> PyStr(q)
          [] kind = "object" -> PyObj(q)]

\* last_results of a step of n examples: the label values found at the
\* labels key and the example found at the keypath.
StepResult(n, lab, part, dat) ==
    [labels |-> StepLabels(n, lab),
     step_ops |-> <<[n |-> fC, v |-> StepParts(n, part)],
                    [n |-> fIm, v |-> StepData(n, dat)]>>]

\* The kinds of step result the loop hands to after_step: the plain one
\* (int labels, short partition values, images) and those that differ from
\* it in one respect.
PlainKinds == {<<"int", "short", "image">>}
StepKinds ==
    {<<lab, "short", "image">> : lab \in {"int", "float", "vec", "extra"}}
    \cup {<<"int", part, "image">> : part \in PartKinds}
    \cup {<<"int", "short", dat>> : dat \in {"image", "array"}}

\* The callbacks passed to EvalHook and the configs it is built with.
cbA == [name |-> "a", cb |-> Fn("m", "f")]
cbB == [name |-> "b", cb |-> Dotted("m", "g")]
ExplicitCallbacks == {<<>>, <<cbA>>}
Configs ==
    {[dataset |-> "D", callbacks |-> <<>>, callback_kwargs |-> <<>>],
     [dataset |-> "D", callbacks |-> <<cbB>>,
      callback_kwargs |-> <<[name |-> "b", kw |-> "kw1"]>>]}

\* ----------------------------------------------------------- the EvalHook
\* EvalHook.__init__: the callbacks passed are updated with those of the
\* config and loaded; the construction raises when loading does.
cb_merge(callbacks, config_cbs) == DictUpdate(callbacks, config_cbs)

HookInit(callbacks, cfg, sub_dir_keys, labels_key) ==
    LET merged == cb_merge(callbacks, config2cbdict(cfg).callbacks)
        loaded == load_callbacks(merged)
    IN  /\ loaded.ok
        /\ cb_paths = merged
        /\ cbacks = loaded.cbs
        /\ sdks = sub_dir_keys
        /\ lk = labels_key
        /\ config = cfg
        /\ attrs = {"cbacks", "sdks", "lk", "data_in", "config", "gs", "keypath"}
        /\ root = <<>>
        /\ save_root = <<>>
        /\ label_arrs = [none |-> TRUE, d |-> EmptyDict]
        /\ idxs = <<>>

\* __init__ when load_callbacks raises: cb_names and cb_paths are assigned,
\* the exception leaves __init__ and the caller gets no hook.
HookInitFails(callbacks, cfg) ==
    LET merged == cb_merge(callbacks, config2cbdict(cfg).callbacks)
        loaded == load_callbacks(merged)
    IN  /\ ~loaded.ok
        /\ cb_paths = merged
        /\ cbacks = <<>>
        /\ sdks = <<>>
        /\ lk = "None"
        /\ config = cfg
        /\ attrs = {}
        /\ root = <<>>
        /\ save_root = <<>>
        /\ label_arrs = [none |-> TRUE, d |-> EmptyDict]
        /\ idxs = <<>>

\* Before the first replay: no config, no other_config, nothing dispatched.
NoConfig == [dataset |-> "", callbacks |-> <<>>, callback_kwargs |-> <<>>]

\* An other_config is [keys, dataset, callbacks, callback_kwargs], keys the
\* top-level keys it holds; None is read as the empty dict.
NoOther == [keys |-> {}, dataset |-> "", callbacks |-> <<>>, callback_kwargs |-> <<>>]

NoEnv == [config |-> NoConfig, root |-> <<>>, in_data |-> "", loaded |-> <<>>]

\* Before the first direct call of save_output, save_example and
\* decompose_name.
NoSaveOutput ==
    [done |-> FALSE, root |-> <<>>, example |-> <<>>, index |-> <<>>,
     sub_dir_keys |-> <<>>,
     res |-> [ok |-> FALSE, dirs |-> {}, writes |-> <<>>, path_dicts |-> EmptyDict],
     files |-> EmptyDict]
NoSaveExample ==
    [done |-> FALSE, savepath |-> <<>>, datum |-> PyObj(0),
     res |-> save_example(<<>>, PyObj(0)), err |-> "none", written |-> {}]
NoCtor == [done |-> FALSE, by_default |-> FALSE, callbacks |-> <<>>, cfg |-> NoConfig]
NoDecompose ==
    [done |-> FALSE, name |-> <<>>, field |-> <<>>, index |-> 0, ext |-> <<>>,
     res |-> [ok |-> FALSE, index |-> 0, datum_name |-> <<>>, ending |-> <<>>]]

NoStep == [kind |-> <<>>, index |-> <<>>, first |-> FALSE, ok |-> FALSE]

InitRest ==
    /\ fs_dirs = {}
    /\ fs_files = EmptyDict
    /\ fs_labels = EmptyDict
    /\ fs_meta = EmptyDict
    /\ nsteps = 0
    /\ nepochs = 0
    /\ log = <<>>
    /\ given = EmptyDict
    /\ epoch_ok = TRUE
    /\ last_step = NoStep
    /\ cur_g = 0
    /\ prev = [files |-> EmptyDict, labels |-> EmptyDict, meta |-> EmptyDict]
    /\ re_args = [path |-> <<>>, callbacks |-> <<>>, additional_kwargs |-> <<>>,
                  other_config |-> NoOther, raiser |-> 0]
    /\ re_callbacks = <<>>
    /\ re_env = NoEnv
    /\ re_calls = <<>>
    /\ re_ret = [state |-> "none", at |-> "", outputs |-> <<>>]
    /\ so_call = NoSaveOutput
    /\ se_call = NoSaveExample
    /\ dn_call = NoDecompose
    /\ active = "unset"
    /\ default_callbacks = <<>>
    /\ ctor = NoCtor

InitWith(explicit, configs) ==
    /\ \E cbs \in explicit, cfg \in configs :
          HookInit(cbs, cfg, <<fC>>, "labels")
    /\ phase = "idle"
    /\ InitRest

\* The root of an epoch that leaves the global step out.
epoch_root_no_step(g) == sLatestEval

\* before_epoch, the step getter returning g.
epoch_root(g) == PathJoin(sLatestEval, IntStr(g))

before_epoch(g, epochs) ==
    /\ phase = "idle"
    /\ nepochs < epochs
    /\ root' = epoch_root(g)
    /\ save_root' = PathJoin(root', sModelOutputs)
    /\ fs_dirs' = fs_dirs \cup {root', save_root', PathJoin(save_root', sLabels)}
    /\ label_arrs' = [none |-> TRUE, d |-> EmptyDict]
    /\ attrs' = attrs \cup {"root", "save_root", "label_arrs"}
    /\ phase' = "epoch"
    /\ nepochs' = nepochs + 1
    /\ log' = <<>>
    /\ given' = EmptyDict
    /\ epoch_ok' = TRUE
    /\ last_step' = NoStep
    /\ cur_g' = g
    /\ prev' = [files |-> fs_files, labels |-> fs_labels, meta |-> fs_meta]
    /\ UNCHANGED <<idxs, cbacks, config, sdks, lk, fs_files, fs_labels, fs_meta,
                   nsteps,
                   revars, fnvars, cb_paths, ctorvars>>

\* before_epoch of an EvalHook.
BeforeEpoch(g, epochs) == before_epoch(g, epochs) /\ UNCHANGED active

\* before_step: the indices of the batch are kept.
BeforeStep(index) ==
    /\ phase = "epoch"
    /\ nsteps < MaxSteps
    /\ idxs' = index
    /\ attrs' = attrs \cup {"idxs"}
    /\ phase' = "step"
    /\ nsteps' = nsteps + 1
    /\ UNCHANGED <<root, save_root, label_arrs, cbacks, config, sdks, lk,
                   fsvars, nepochs, histvars,
                   revars, fnvars, cb_paths, objvars>>

\* The label values after_step extracts: pop_keypath(last_results, lk,
\* default={}), or {} without labels key.
pop_labels(last_results) ==
    IF lk # "None" THEN last_results.labels ELSE <<>>

\* given after a completed step: every index of the batch takes, for every
\* key, the value at its last position in the batch.
GivenAfter(g, lvs, index) ==
    [k \in {lvs[j].k : j \in 1..Len(lvs)} |->
        LET v == lvs[CHOOSE j \in 1..Len(lvs) : lvs[j].k = k].v
        IN  [i \in Range(index) |-> v[LastPos(index, i)]]
            @@ (IF k \in DOMAIN g THEN g[k] ELSE EmptyDict)] @@ g

\* after_step on the step result of kind c.  The files of save_output are
\* written first; when it raises nothing else happens.  Otherwise the paths
\* are merged into the label values, the arrays are allocated if label_arrs
\* is None, and the values are written slot by slot until an assignment
\* raises.
AfterStep(c) ==
    LET last_results == StepResult(Len(idxs), c[1], c[2], c[3])
        label_vals == pop_labels(last_results)
        out == save_output(save_root, last_results.step_ops, idxs, sdks)
        lvs == MergeLabelVals(label_vals, out.path_dicts, idxs)
        alloc == IF label_arrs.none
                 THEN AllocLabelArrs(lvs, PathJoin(save_root, sLabels), fs_labels)
                 ELSE [ok |-> TRUE, d |-> label_arrs.d, fs |-> fs_labels]
        wr == WriteLabels(lvs, idxs, alloc.d, alloc.fs, 1)
        returns == out.ok /\ alloc.ok /\ wr.ok
    IN  /\ phase = "step"
        /\ fs_dirs' = fs_dirs \cup out.dirs
        /\ fs_files' = WriteAll(fs_files, out.writes)
        /\ label_arrs' = IF out.ok THEN [none |-> FALSE, d |-> alloc.d]
                         ELSE label_arrs
        /\ fs_labels' = IF ~out.ok THEN fs_labels
                        ELSE IF ~alloc.ok THEN alloc.fs ELSE wr.fs
        /\ phase' = IF returns THEN "epoch" ELSE "raised"
        /\ given' = IF returns THEN GivenAfter(given, lvs, idxs) ELSE given
        /\ epoch_ok' = (epoch_ok /\ returns)
        /\ last_step' = [kind |-> c, index |-> idxs, first |-> label_arrs.none,
                         ok |-> returns]
        /\ UNCHANGED <<attrs, root, save_root, idxs, cbacks, config, sdks, lk,
                       fs_meta, nsteps, nepochs, log, cur_g, prev,
                   revars, fnvars, cb_paths, objvars>>

\* save_meta: meta.yaml of the store directory is (over)written with the
\* description, which says whether the hook has the attribute
\* exception_occured, and the dump of the config.
save_meta(hook_attrs, dir, cfg, meta) ==
    (dir :> [had_exception |-> "exception_occured" \in hook_attrs,
             config |-> cfg]) @@ meta

\* at_exception with the meta data saved before the failure is remembered.
AtExceptionSavesFirst ==
    /\ attrs' = attrs \cup {"exception_occured"}
    /\ fs_meta' = IF "root" \in attrs
                  THEN save_meta(attrs, save_root, config, fs_meta)
                  ELSE fs_meta
    /\ phase' = "idle"
    /\ UNCHANGED <<root, save_root, label_arrs, idxs, cbacks, config, sdks, lk,
                   fs_dirs, fs_files, fs_labels, nsteps, nepochs, histvars,
                   revars, fnvars, cb_paths, objvars>>

\* at_exception: the failure is remembered, and the meta data is saved if
\* the hook has a root.
AtException ==
    /\ attrs' = attrs \cup {"exception_occured"}
    /\ fs_meta' = IF "root" \in attrs
                  THEN save_meta(attrs', save_root, config, fs_meta)
                  ELSE fs_meta
    /\ phase' = "idle"
    /\ UNCHANGED <<root, save_root, label_arrs, idxs, cbacks, config, sdks, lk,
                   fs_dirs, fs_files, fs_labels, nsteps, nepochs, histvars,
                   revars, fnvars, cb_paths, objvars>>

\* An entry of the log of after_epoch.
LogMeta(dir, m) ==
    [ev |-> "save_meta", name |-> "", cb |-> Fn("", ""), root |-> dir,
     data_in |-> "", data_out |-> <<>>, config |-> m.config,
     kwargs |-> "none", had_exception |-> m.had_exception]
LogOpen(dir) ==
    [ev |-> "MetaDataset", name |-> "", cb |-> Fn("", ""), root |-> dir,
     data_in |-> "", data_out |-> <<>>, config |-> config,
     kwargs |-> "none", had_exception |-> FALSE]
LogReturn(dir) ==
    [ev |-> "return", name |-> "", cb |-> Fn("", ""), root |-> dir,
     data_in |-> "", data_out |-> <<>>, config |-> config,
     kwargs |-> "none", had_exception |-> FALSE]
LogCall(name, cb, r, din, dout, cfg, kw) ==
    [ev |-> "callback", name |-> name, cb |-> cb, root |-> r,
     data_in |-> din, data_out |-> dout, config |-> cfg,
     kwargs |-> kw, had_exception |-> FALSE]

\* The callback loop run over the callbacks in reverse.
hook_calls_reversed(last, data_out) ==
    [j \in 1..last |->
        LET cb == cbacks[Len(cbacks) + 1 - j]
        IN  LogCall(cb.name, cb.cb, root, "data_in", data_out, config,
                    KwargsGet(config2cbdict(config).kwargs, cb.name))]

\* The calls of the callback loop of after_epoch (lines 281-289) when the
\* callbacks 1..last are invoked (the last of them may raise).
hook_calls(last, data_out) ==
    [j \in 1..last |->
        LogCall(cbacks[j].name, cbacks[j].cb, root, "data_in", data_out, config,
                KwargsGet(config2cbdict(config).kwargs, cbacks[j].name))]

\* after_epoch: save_meta, the store is reopened, the callbacks run in the
\* order of the dict.  raiser is the position of the first callback that
\* raises, 0 if none does.
AfterEpoch(raiser) ==
    /\ phase = "epoch"
    /\ raiser \in 0..Len(cbacks)
    /\ fs_meta' = save_meta(attrs, save_root, config, fs_meta)
    /\ log' = <<LogMeta(save_root, fs_meta'[save_root]), LogOpen(save_root)>>
               \o hook_calls(IF raiser = 0 THEN Len(cbacks) ELSE raiser, save_root)
               \o (IF raiser = 0 THEN <<LogReturn(save_root)>> ELSE <<>>)
    /\ phase' = IF raiser = 0 THEN "idle" ELSE "raised"
    /\ UNCHANGED <<hookvars, fs_dirs, fs_files, fs_labels, nsteps, nepochs,
                   given, epoch_ok, last_step, cur_g, prev,
                   revars, fnvars, objvars>>

\* ------------------------------------------------------ the TemplateEvalHook

\* The step results whose value at the keypath is None, or that have
\* nothing at the keypath.
NoneKinds == {<<"int", "short", "None">>, <<"int", "short", "absent">>}

\* retrieve(last_results, self.keypath, default=tmp) in [None, tmp]
is_none(c) == c[3] \in {"None", "absent"}

\* TemplateEvalHook.before_epoch: the hook is active, then as EvalHook.
TBeforeEpoch(g, epochs) ==
    /\ active' = "True"
    /\ before_epoch(g, epochs)

\* TemplateEvalHook.before_step: as EvalHook if active; if not, the step
\* goes by and the indices kept are those of an earlier step.
TBeforeStep(index) ==
    /\ active # "unset"
    /\ IF active = "True" THEN BeforeStep(index)
       ELSE /\ phase = "epoch"
            /\ nsteps < MaxSteps
            /\ phase' = "step"
            /\ nsteps' = nsteps + 1
            /\ UNCHANGED <<hookvars, fsvars, nepochs, histvars, revars, fnvars, objvars>>

\* TemplateEvalHook.after_step: a result that is None or missing at the
\* keypath switches the hook off; as EvalHook if it is (still) active.
TAfterStep(c) ==
    /\ active # "unset"
    /\ IF ~is_none(c) /\ active = "True" THEN AfterStep(c)
       ELSE /\ phase = "step"
            /\ active' = IF is_none(c) THEN "False" ELSE active
            /\ phase' = "epoch"
            /\ last_step' = [kind |-> c, index |-> idxs, first |-> label_arrs.none,
                             ok |-> TRUE]
            /\ UNCHANGED <<hookvars, fsvars, nsteps, nepochs, log, given, epoch_ok,
                           cur_g, prev, revars, fnvars, ctorvars>>

\* TemplateEvalHook.after_epoch that does not look at _active.
TAfterEpochAlways(raiser) == AfterEpoch(raiser)

\* TemplateEvalHook.after_epoch: as EvalHook if active, nothing otherwise.
TAfterEpoch(raiser) ==
    /\ active # "unset"
    /\ IF active = "True" THEN AfterEpoch(raiser)
       ELSE /\ phase = "epoch"
            /\ raiser = 0
            /\ phase' = "idle"
            /\ UNCHANGED <<hookvars, fsvars, nsteps, nepochs, histvars, revars, fnvars,
                           objvars>>

\* TemplateEvalHook.at_exception: as EvalHook if active, nothing otherwise.
\* Before the first before_epoch there is no _active and the call ends in
\* an AttributeError, with nothing changed.
TAtException ==
    /\ active # "unset"
    /\ IF active = "True" THEN AtException
       ELSE /\ phase' = "idle"
            /\ UNCHANGED <<hookvars, fsvars, nsteps, nepochs, histvars, revars, fnvars,
                           objvars>>

\* EvalHook(...) called again: another hook is constructed and takes the
\* place of the one before.  by_default: the call passes no callbacks, so
\* the parameter is the dict the def statement made, the same object at
\* every call; callbacks.update(config_cbs) changes it in place.
Construct(by_default, callbacks, cfg) ==
    /\ phase \in {"idle", "unbuilt"}
    /\ by_default => callbacks = <<>>
    /\ LET arg == IF by_default THEN default_callbacks ELSE callbacks
           merged == cb_merge(arg, config2cbdict(cfg).callbacks)
           loaded == load_callbacks(merged)
       IN  /\ default_callbacks' = IF by_default THEN merged ELSE default_callbacks
           /\ ctor' = [done |-> TRUE, by_default |-> by_default,
                       callbacks |-> callbacks, cfg |-> cfg]
           /\ cb_paths' = merged
           /\ cbacks' = IF loaded.ok THEN loaded.cbs ELSE <<>>
           /\ phase' = IF loaded.ok THEN "idle" ELSE "unbuilt"
           /\ attrs' = IF loaded.ok
                       THEN {"cbacks", "sdks", "lk", "data_in", "config", "gs", "keypath"}
                       ELSE {}
    /\ config' = cfg
    /\ root' = <<>>
    /\ save_root' = <<>>
    /\ label_arrs' = [none |-> TRUE, d |-> EmptyDict]
    /\ idxs' = <<>>
    /\ nsteps' = 0
    /\ nepochs' = 0
    /\ log' = <<>>
    /\ given' = EmptyDict
    /\ epoch_ok' = TRUE
    /\ last_step' = NoStep
    /\ cur_g' = 0
    /\ prev' = [files |-> EmptyDict, labels |-> EmptyDict, meta |-> EmptyDict]
    /\ UNCHANGED <<sdks, lk, fsvars, revars, fnvars, active>>

\* ------------------------------------------------------ standalone replay
sMetaYaml == <<"m", "e", "t", "a", ".", "y", "a", "m", "l">>

\* s.rstrip("/")
RECURSIVE RStripSlash(_)
RStripSlash(s) ==
    IF s # <<>> /\ s[Len(s)] = "/" THEN RStripSlash(SubSeq(s, 1, Len(s) - 1)) ELSE s

\* os.path.dirname(p): everything up to the last "/", trailing slashes
\* stripped unless the head is nothing but slashes.
dirname(p) ==
    LET slashes == {j \in 1..Len(p) : p[j] = "/"}
        head == SubSeq(p, 1, IF slashes = {} THEN 0 ELSE MaxOf(slashes))
    IN  IF \A j \in 1..Len(head) : head[j] = "/" THEN head ELSE RStripSlash(head)

\* MetaDataset(path_to_meta_dir) and its .meta: the meta.yaml in that
\* directory is read; opening raises when there is none.
MetaDataset(path, meta) ==
    LET hits == {d \in DOMAIN meta :
                    PathJoin(d, sMetaYaml) = PathJoin(path, sMetaYaml)}
    IN  [ok |-> hits # {},
         meta |-> IF hits # {} THEN meta[CHOOSE d \in hits : TRUE].config
                  ELSE NoConfig]

\* A keypath override sets the dataset or the keyword arguments of one
\* callback name: [key, name, val].
KwargsSet(kws, name, val) ==
    IF \E j \in 1..Len(kws) : kws[j].name = name
    THEN [j \in 1..Len(kws) |->
            IF kws[j].name = name THEN [name |-> name, kw |-> val] ELSE kws[j]]
    ELSE Append(kws, [name |-> name, kw |-> val])

RECURSIVE update_config(_, _)
update_config(cfg, additional_kwargs) ==
    IF additional_kwargs = <<>> THEN cfg
    ELSE LET e == Head(additional_kwargs)
             set == IF e.key = "dataset"
                    THEN [cfg EXCEPT !.dataset = e.val]
                    ELSE [cfg EXCEPT !.callback_kwargs = KwargsSet(@, e.name, e.val)]
         IN  update_config(set, Tail(additional_kwargs))

\* config.update(other_config): top-level keys are replaced as a whole.
ConfigUpdate(cfg, other_config) ==
    [dataset |-> IF "dataset" \in other_config.keys
                 THEN other_config.dataset ELSE cfg.dataset,
     callbacks |-> IF "eval_pipeline" \in other_config.keys
                   THEN other_config.callbacks ELSE cfg.callbacks,
     callback_kwargs |-> IF "eval_pipeline" \in other_config.keys
                         THEN other_config.callback_kwargs ELSE cfg.callback_kwargs]

\* What the callback cb returns.
CallResult(cb) == <<cb.mod, cb.attr>>

\* apply_callbacks that goes on with the next callback when one raises.
apply_callbacks_catching(callbacks, r, in_data, out_data, cfg, callback_kwargs, raiser) ==
    [calls |-> [j \in 1..Len(callbacks) |->
                  LogCall(callbacks[j].name, callbacks[j].cb, r, in_data, out_data,
                          cfg, KwargsGet(callback_kwargs, callbacks[j].name))],
     raised |-> FALSE,
     outputs |-> SelectSeq([j \in 1..Len(callbacks) |->
                              [name |-> callbacks[j].name,
                               out |-> CallResult(callbacks[j].cb)]],
                           LAMBDA o : raiser \notin 1..Len(callbacks)
                                         \/ o.name # callbacks[raiser].name)]

\* apply_callbacks: the callbacks are invoked in the order of the dict;
\* raiser is the position of the first callback that raises (none does
\* when it is 0 or beyond the dict).  The exception is not caught, so the
\* loop ends there and nothing is returned.
apply_callbacks(callbacks, r, in_data, out_data, cfg, callback_kwargs, raiser) ==
    LET raises == raiser \in 1..Len(callbacks)
    IN  [calls |-> SubSeq([j \in 1..Len(callbacks) |->
                             LogCall(callbacks[j].name, callbacks[j].cb, r,
                                     in_data, out_data, cfg,
                                     KwargsGet(callback_kwargs, callbacks[j].name))],
                          1, IF raises THEN raiser ELSE Len(callbacks)),
         raised |-> raises,
         outputs |-> IF raises THEN <<>>
                     ELSE [j \in 1..Len(callbacks) |->
                             [name |-> callbacks[j].name,
                              out |-> CallResult(callbacks[j].cb)]]]

\* standalone_eval_meta_dset over the file system meta: the store is
\* opened, the input dataset built from the stored config, the config
\* updated, the callbacks passed updated with those of the config, loaded
\* and applied.
standalone_eval_meta_dset(path_to_meta_dir, callbacks, additional_kwargs, other_config, raiser, meta) ==
    LET out_data == MetaDataset(path_to_meta_dir, meta)
        in_data == out_data.meta.dataset
        cfg == ConfigUpdate(update_config(out_data.meta, additional_kwargs),
                            other_config)
        cbdict == config2cbdict(cfg)
        merged == DictUpdate(callbacks, cbdict.callbacks)
        loaded == load_callbacks(merged)
        env == [config |-> cfg, root |-> dirname(path_to_meta_dir),
                in_data |-> in_data, loaded |-> loaded.cbs]
        res == apply_callbacks(loaded.cbs, env.root, in_data, path_to_meta_dir,
                               cfg, cbdict.kwargs, raiser)
    IN  IF ~out_data.ok
        THEN [state |-> "raised", at |-> "MetaDataset", callbacks |-> callbacks,
              env |-> NoEnv, calls |-> <<>>, outputs |-> <<>>]
        ELSE IF ~loaded.ok
        THEN [state |-> "raised", at |-> "load_callbacks", callbacks |-> merged,
              env |-> NoEnv, calls |-> <<>>, outputs |-> <<>>]
        ELSE [state |-> IF res.raised THEN "raised" ELSE "returned",
              at |-> IF res.raised THEN "callback" ELSE "",
              callbacks |-> merged, env |-> env,
              calls |-> res.calls, outputs |-> res.outputs]

\* A call of standalone_eval_meta_dset while the hook is idle.
Replay(path, callbacks, additional_kwargs, other_config, raiser) ==
    /\ phase = "idle"
    /\ LET ret == standalone_eval_meta_dset(path, callbacks, additional_kwargs,
                                          other_config, raiser, fs_meta)
       IN  /\ raiser <= Len(ret.env.loaded)
           /\ re_args' = [path |-> path, callbacks |-> callbacks,
                          additional_kwargs |-> additional_kwargs,
                          other_config |-> other_config, raiser |-> raiser]
           /\ re_callbacks' = ret.callbacks
           /\ re_env' = ret.env
           /\ re_calls' = ret.calls
           /\ re_ret' = [state |-> ret.state, at |-> ret.at, outputs |-> ret.outputs]
    /\ UNCHANGED <<hookvars, fsvars, loopvars, histvars, fnvars, objvars>>

\* The arguments of a replay.
cbB2 == [name |-> "b", cb |-> Dotted("m", "h")]
cbC == [name |-> "c", cb |-> Dotted("m", "h")]
cbX == [name |-> "x", cb |-> Dotted("m", "nope")]
ReplayPaths == {save_root, save_root \o sSlash}
ReplayCallbacks == {<<>>, <<cbA>>, <<cbA, cbB2>>, <<cbX>>}
AdditionalKwargs ==
    {<<>>,
     <<[key |-> "dataset", name |-> "", val |-> "E"]>>,
     <<[key |-> "eval_pipeline/callback_kwargs", name |-> "a", val |-> "kw2"]>>}
OtherConfigs ==
    {NoOther,
     [keys |-> {"eval_pipeline"}, dataset |-> "", callbacks |-> <<cbC>>,
      callback_kwargs |-> <<>>],
     [keys |-> {"dataset"}, dataset |-> "F", callbacks |-> <<>>,
      callback_kwargs |-> <<>>]}

\* ------------------------------------------------- direct calls of functions
\* No function has been called directly yet: each behaviour holds one call.
Fresh == ~so_call.done /\ ~se_call.done /\ ~dn_call.done

\* A call of save_output on an empty directory r: what it returned and the
\* files it left there.
SaveOutput(r, example, index, sub_dir_keys) ==
    /\ Fresh
    /\ LET res == save_output(r, example, index, sub_dir_keys)
       IN  so_call' = [done |-> TRUE, root |-> r, example |-> example,
                       index |-> index, sub_dir_keys |-> sub_dir_keys,
                       res |-> res, files |-> WriteAll(EmptyDict, res.writes)]
    /\ UNCHANGED <<hookvars, fsvars, loopvars, histvars, revars, se_call, dn_call, objvars>>

\* The directory the direct calls write to.
sRoot == <<"r">>

\* A call of save_example: what it returned, the error it raised and the
\* files it wrote.
SaveExample(savepath, datum) ==
    /\ Fresh
    /\ LET res == save_example(savepath, datum)
           sv == determine_saver(datum)
       IN  se_call' = [done |-> TRUE, savepath |-> savepath, datum |-> datum,
                       res |-> res,
                       err |-> IF ~sv.ok THEN sv.err
                               ELSE IF ~res.ok THEN "ValueError" ELSE "none",
                       written |-> IF res.ok THEN {res.path} ELSE {}]
    /\ UNCHANGED <<hookvars, fsvars, loopvars, histvars, revars, so_call, dn_call, objvars>>

\* A call of decompose_name on the file name save_output and save_example
\* build for a field, an index and an extension.
DecomposeName(field, index, ext) ==
    /\ Fresh
    /\ LET name == savename(field, index) \o ext
       IN  dn_call' = [done |-> TRUE, name |-> name, field |-> field,
                       index |-> index, ext |-> ext, res |-> decompose_name(name)]
    /\ UNCHANGED <<hookvars, fsvars, loopvars, histvars, revars, so_call, se_call, objvars>>

\* The arguments of the direct calls of save_example: arrays of one to
\* four dimensions, text and an object of another type.
SavePaths == {sRoot \o sSlash \o fIm \o <<"_">> \o Pad6(1) \o <<".">>}
SaveData ==
    {Ndarray(sh, 1) : sh \in {<<4>>, <<2, 2>>, <<8, 8, 1>>, <<8, 8, 2>>, <<8, 8, 3>>,
                              <<8, 8, 4>>, <<2, 8, 8, 3>>}}
    \cup {PyStr(1), PyObj(1)}

\* The arguments of the direct calls of save_output: one or two partition
\* keys or none, partition values that hold "/" and "--", two output
\* fields, one with "_" in its name.
fD == <<"d">>
fSeg == <<"s", "_", "g">>
PartVals == {<<"a">>, <<"a", "/", "b">>, <<"a", "-", "-", "b">>}
Part2Vals == {<<"x">>, <<"y">>}
SaveSdks == {<<>>, <<fC>>, <<fC, fD>>}
\* The arguments of the direct calls of decompose_name: field names with
\* "_" at every place and with ".", indices of one to six digits, the
\* extensions save_example knows.
NameFields ==
    {fIm, fSeg, <<"_">>, <<"_", "x">>, <<"x", "_">>, <<"a", "_", "_", "b">>,
     <<"a", ".", "b">>, <<"a", "_", "0", "1">>}
NameIndices == {0, 1, 12, 345, 6789, 99999, 100000, 999999}
NameExts == {sPng, sNpy, sTxt}

SaveExampleOf(n, sub_dir_keys, cv, dv, dat) ==
    (IF fC \in Range(sub_dir_keys) THEN <<[n |-> fC, v |-> cv]>> ELSE <<>>)
    \o (IF fD \in Range(sub_dir_keys) THEN <<[n |-> fD, v |-> dv]>> ELSE <<>>)
    \o <<[n |-> fIm, v |-> StepData(n, dat)],
         [n |-> fSeg, v |-> StepData(n, "array")]>>

\* The loop drives the hook: before_epoch, then pairs of before_step and
\* after_step, then after_epoch; at_exception reports a failure at any point.
NextWith(kinds, epochs) ==
    \/ \E g \in 1..MaxGlobalStep : BeforeEpoch(g, epochs)
    \/ \E index \in IndexBatches : BeforeStep(index)
    \/ \E c \in kinds : AfterStep(c)
    \/ AtException
    \/ \E raiser \in 0..Len(cbacks) : AfterEpoch(raiser)

\* One epoch of the hook with two callbacks, over every kind of step result.
Init == InitWith({<<cbA>>}, {c \in Configs : c.callbacks # <<>>})
Next == NextWith(StepKinds, 1)
Spec == Init /\ [][Next]_vars

\* Repeated epochs of the hook, with every set of callbacks, over plain step
\* results.
InitEpochs == InitWith(ExplicitCallbacks, Configs)
NextEpochs == NextWith(PlainKinds, MaxEpochs)
SpecEpochs == InitEpochs /\ [][NextEpochs]_vars

\* An epoch without steps leaves a store, which is replayed.
InitReplay == InitWith(ExplicitCallbacks, Configs)
NextReplay ==
    \/ \E g \in 1..MaxGlobalStep : BeforeEpoch(g, 1)
    \/ \E raiser \in 0..Len(cbacks) : AfterEpoch(raiser)
    \/ \E path \in ReplayPaths, callbacks \in ReplayCallbacks,
          additional_kwargs \in AdditionalKwargs, other_config \in OtherConfigs,
          raiser \in 0..MaxCallbacks :
            Replay(path, callbacks, additional_kwargs, other_config, raiser)
SpecReplay == InitReplay /\ [][NextReplay]_vars

\* Constructions that may fail in load_callbacks, one epoch of a hook that was
\* built, and replays whose callbacks may hold an unresolvable reference.
LoadCallbacks == {<<cbA>>, <<cbA, cbX>>, <<cbX, cbA>>}
LoadReplayCallbacks == {<<cbA>>, <<cbA, cbX>>, <<cbX, cbA>>}
InitLoad ==
    /\ \E cbs \in LoadCallbacks, cfg \in Configs :
          \/ HookInit(cbs, cfg, <<fC>>, "labels") /\ phase = "idle"
          \/ HookInitFails(cbs, cfg) /\ phase = "unbuilt"
    /\ InitRest
NextLoad ==
    \/ \E g \in 1..MaxGlobalStep : BeforeEpoch(g, 1)
    \/ \E raiser \in 0..Len(cbacks) : AfterEpoch(raiser)
    \/ \E path \in ReplayPaths, callbacks \in LoadReplayCallbacks,
          additional_kwargs \in AdditionalKwargs, other_config \in OtherConfigs,
          raiser \in 0..MaxCallbacks :
            Replay(path, callbacks, additional_kwargs, other_config, raiser)
SpecLoad == InitLoad /\ [][NextLoad]_vars

\* One epoch of plain steps whose batches may hold indices outside the
\* dataset, below 0 or from its length on.
WideBatches ==
    UNION {[1..n -> (0 - DatasetLen - 1)..DatasetLen] : n \in 1..MaxBatch}
InitRange == InitWith({<<>>}, {c \in Configs : c.callbacks = <<>>})
NextRange ==
    \/ \E g \in 1..MaxGlobalStep : BeforeEpoch(g, 1)
    \/ \E index \in WideBatches : BeforeStep(index)
    \/ \E c \in PlainKinds : AfterStep(c)
    \/ AtException
    \/ \E raiser \in 0..Len(cbacks) : AfterEpoch(raiser)
SpecRange == InitRange /\ [][NextRange]_vars

\* The functions of the module called directly, on their own.
InitFn == InitWith({<<>>}, {c \in Configs : c.callbacks = <<>>})
NextFn ==
    \/ \E index \in IndexBatches, sub_dir_keys \in SaveSdks, dat \in DatumKinds :
          \E cv \in [1..Len(index) -> PartVals], dv \in [1..Len(index) -> Part2Vals] :
            /\ (fC \notin Range(sub_dir_keys) => \A q \in 1..Len(index) : cv[q] = <<"a">>)
            /\ (fD \notin Range(sub_dir_keys) => \A q \in 1..Len(index) : dv[q] = <<"x">>)
            /\ SaveOutput(sRoot, SaveExampleOf(Len(index), sub_dir_keys, cv, dv, dat),
                          index, sub_dir_keys)
    \/ \E savepath \in SavePaths, datum \in SaveData : SaveExample(savepath, datum)
    \/ \E field \in NameFields, index \in NameIndices, ext \in NameExts :
          DecomposeName(field, index, ext)
SpecFn == InitFn /\ [][NextFn]_vars

\* Hooks constructed one after the other, with callbacks passed or left to
\* the default, each running one epoch, and replays of the stores.
CtorCallbacks == {<<>>, <<cbA>>}
CtorConfigs ==
    Configs \cup {[dataset |-> "D", callbacks |-> <<cbC>>, callback_kwargs |-> <<>>]}
InitCtor == InitWith(CtorCallbacks, CtorConfigs)
NextCtor ==
    \/ \E by_default \in BOOLEAN, callbacks \in CtorCallbacks, cfg \in CtorConfigs :
          Construct(by_default, callbacks, cfg)
    \/ \E g \in 1..MaxGlobalStep : BeforeEpoch(g, 1)
    \/ \E raiser \in 0..Len(cbacks) : AfterEpoch(raiser)
    \/ \E callbacks \in CtorCallbacks : Replay(save_root, callbacks, <<>>, NoOther, 0)
SpecCtor == InitCtor /\ [][NextCtor]_vars

\* Two epochs of a TemplateEvalHook whose steps may return None or nothing
\* at the keypath.
InitTemplate == InitWith({<<cbA>>}, {c \in Configs : c.callbacks # <<>>})
NextTemplate ==
    \/ \E g \in 1..MaxGlobalStep : TBeforeEpoch(g, MaxEpochs)
    \/ \E index \in IndexBatches : TBeforeStep(index)
    \/ \E c \in PlainKinds \cup NoneKinds : TAfterStep(c)
    \/ TAtException
    \/ \E raiser \in 0..Len(cbacks) : TAfterEpoch(raiser)
SpecTemplate == InitTemplate /\ [][NextTemplate]_vars

\* ------------------------------------------------------------------ claims
\* The array behind the key k of label_arrs.
Arr(k) == fs_labels[label_arrs.d[k]]

\* What the latest after_step (ls = last_step) was given: its step result,
\* what save_output returned for it, and its merged label values.
StepOut(ls) ==
    save_output(save_root,
                StepResult(Len(ls.index), ls.kind[1], ls.kind[2], ls.kind[3]).step_ops,
                ls.index, sdks)
StepLvs(ls) ==
    MergeLabelVals(
        pop_labels(StepResult(Len(ls.index), ls.kind[1], ls.kind[2], ls.kind[3])),
        StepOut(ls).path_dicts, ls.index)
StepRan(ls) == ls.kind # <<>>

\* C1: within one epoch, after any sequence of completed (before_step,
\* after_step) pairs, every label array holds at every index that occurred
\* the value given at the latest occurrence of the index, and at every
\* other slot the fill value of its allocation.
C1_LastWriteWins ==
    (epoch_ok /\ ~label_arrs.none) =>
        \A k \in DOMAIN given :
            /\ k \in DOMAIN label_arrs.d
            /\ \A i \in 0..(DatasetLen - 1) :
                 IF i \in DOMAIN given[k]
                 THEN ValEq(GetItem(Arr(k), i), given[k][i])
                 ELSE Arr(k).data[i] = ZeroCell(Arr(k).dtype, ExShape(Arr(k)))

\* C2: after a completed after_step, for every artifact file it wrote for
\* (index i, key "field:loader"), the label array of that key holds at slot
\* i the full path of the file.
C2_PathStored ==
    (StepRan(last_step) /\ last_step.ok) =>
        \A m \in 1..Len(StepOut(last_step).writes) :
            LET w == StepOut(last_step).writes[m]
            IN  /\ w.path \in DOMAIN fs_files
                /\ w.key \in DOMAIN label_arrs.d
                /\ Arr(w.key).dtype.k = "U"
                /\ Arr(w.key).data[w.idx] = w.path

\* C3: a step later than the first of its epoch leaves every field of its
\* label values with an array of shape [len(dataset)] + value shape, also a
\* field that the earlier steps did not have, and returns if the new field
\* is all that distinguishes it from the earlier steps.
C3_LateFieldAllocated ==
    (StepRan(last_step) /\ ~last_step.first /\ StepOut(last_step).ok) =>
        \A j \in 1..Len(StepLvs(last_step)) :
            LET lv == StepLvs(last_step)[j]
            IN  /\ lv.k \in DOMAIN label_arrs.d
                /\ Arr(lv.k).shape = <<DatasetLen>> \o ShapeOf(lv.v[1])

\* Does the value x differ in shape or dtype from the slots of arr (for a
\* string: is it longer than the width of arr)?
Mismatch(arr, x) ==
    \/ ShapeOf(x) # ExShape(arr)
    \/ x.k # arr.dtype.k
    \/ x.k = "U" /\ Len(x.d) > arr.dtype.w

\* C4: a step later than the first of its epoch, one of whose values
\* differs in shape or dtype from the array allocated for its field,
\* raises, and leaves the label arrays as they were.
C4_MismatchFails ==
    [][(/\ phase = "step"
        /\ phase' # "step"
        /\ ~label_arrs.none
        /\ StepOut(last_step').ok
        /\ \E j \in 1..Len(StepLvs(last_step')) :
             LET lv == StepLvs(last_step')[j]
             IN  /\ lv.k \in DOMAIN label_arrs.d
                 /\ \E i \in 1..Len(lv.v) : Mismatch(Arr(lv.k), lv.v[i]))
       => (~last_step'.ok /\ fs_labels' = fs_labels)]_vars

C6_CleanEpochMarkedComplete ==
    Len(log) > 0 => (log[1].ev = "save_meta" /\ ~log[1].had_exception)

\* Is path p inside the directory dir?
IsUnder(dir, p) ==
    Len(p) > Len(dir) + 1 /\ SubSeq(p, 1, Len(dir) + 1) = dir \o sSlash

\* The store directory of an epoch run at global step g.
StoreDir(g) == sLatestEval \o sSlash \o IntStr(g) \o sSlash \o sModelOutputs

\* Every artifact, label array and meta.yaml that existed at the latest
\* before_epoch is as it was.
KeptAll ==
    /\ \A p \in DOMAIN prev.files :
         p \in DOMAIN fs_files /\ fs_files[p] = prev.files[p]
    /\ \A f \in DOMAIN prev.labels :
         f \in DOMAIN fs_labels /\ fs_labels[f] = prev.labels[f]
    /\ \A d \in DOMAIN prev.meta :
         d \in DOMAIN fs_meta /\ fs_meta[d] = prev.meta[d]

\* The same, leaving out the store of the global step of the running epoch.
KeptOther ==
    /\ \A p \in DOMAIN prev.files :
         ~IsUnder(StoreDir(cur_g), p) =>
            (p \in DOMAIN fs_files /\ fs_files[p] = prev.files[p])
    /\ \A f \in DOMAIN prev.labels :
         f.dir # StoreDir(cur_g) \o sSlash \o sLabels =>
            (f \in DOMAIN fs_labels /\ fs_labels[f] = prev.labels[f])
    /\ \A d \in DOMAIN prev.meta :
         d # StoreDir(cur_g) =>
            (d \in DOMAIN fs_meta /\ fs_meta[d] = prev.meta[d])

\* A before_epoch or a step of an epoch.
EpochWrites ==
    \/ \E g \in 1..MaxGlobalStep : BeforeEpoch(g, MaxEpochs)
    \/ \E c \in PlainKinds : AfterStep(c)

\* C7 as claimed: whatever the step getter returns, the before_epoch and
\* the steps of an epoch leave every artifact, label array and meta.yaml
\* that existed at its before_epoch as it was.
C7_EarlierStoresKept == [][EpochWrites => KeptAll']_vars

\* C7 as amended: the before_epoch and the steps of an epoch leave every
\* artifact, label array and meta.yaml that existed at its before_epoch as
\* it was, except those of the store of its own global step.
C7_OtherStoresKept == [][EpochWrites => KeptOther']_vars

\* A second epoch, at another global step than the first, has completed a
\* step and its after_epoch, next to the store of the first epoch.
C7_Witness ==
    /\ nepochs = 2
    /\ last_step.ok
    /\ Len(log) > 0
    /\ DOMAIN prev.files # {}
    /\ DOMAIN prev.labels # {}
    /\ DOMAIN prev.meta # {}
    /\ StoreDir(cur_g) \notin DOMAIN prev.meta
    /\ StoreDir(cur_g) \in DOMAIN fs_meta
    /\ \E f \in DOMAIN fs_labels : f \notin DOMAIN prev.labels

\* The keyword arguments the config holds for a callback name.
ExpectedKwargs(name) ==
    IF \E j \in 1..Len(config.callback_kwargs) : config.callback_kwargs[j].name = name
    THEN LET j == CHOOSE j \in 1..Len(config.callback_kwargs) :
                     config.callback_kwargs[j].name = name
         IN  config.callback_kwargs[j].kw
    ELSE "none"

\* C8: what after_epoch does is, in this order: the meta data is saved, the
\* store is reopened, then the callbacks are invoked in the order of
\* self.cbacks, each once, with (root, input dataset, reopened store,
\* config) and the keyword arguments the config holds for its name; it
\* returns after the last callback, and a callback that raises ends it.
C8_AfterEpochOrder ==
    Len(log) > 0 =>
        /\ Len(log) >= 2
        /\ log[1].ev = "save_meta" /\ log[1].root = save_root
        /\ save_root \in DOMAIN fs_meta
        /\ log[2].ev = "MetaDataset" /\ log[2].root = save_root
        /\ \A j \in 3..Len(log) :
             \/ /\ log[j].ev = "callback"
                /\ j - 2 <= Len(cbacks)
                /\ log[j].name = cbacks[j - 2].name
                /\ log[j].cb = cbacks[j - 2].cb
                /\ log[j].root = root
                /\ log[j].data_in = "data_in"
                /\ log[j].data_out = log[2].root
                /\ log[j].config = config
                /\ log[j].kwargs = ExpectedKwargs(log[j].name)
             \/ /\ log[j].ev = "return"
                /\ j = Len(log)
                /\ j = Len(cbacks) + 3

\* after_epoch has returned after two callbacks, one with keyword arguments
\* in the config and one without.
C8_Witness ==
    /\ Len(log) = 5
    /\ log[5].ev = "return"
    /\ log[3].name = "a" /\ log[3].kwargs = "none"
    /\ log[4].name = "b" /\ log[4].kwargs = "kw1"

\* The latest replay got as far as apply_callbacks.
Dispatched == re_ret.state # "none" /\ re_ret.at \in {"", "callback"}

\* C9: apply_callbacks invokes the callbacks it is given in their order,
\* each with (root, in_data, out_data, config) and the keyword arguments of
\* its name; when none raises every callback is invoked and the results
\* are returned under the callbacks' names; when the k-th raises, exactly
\* the first k were invoked, once each, the call ends raising and returns
\* no results.
C9_ApplyCallbacks ==
    Dispatched =>
        LET cbs == re_env.loaded
            k == re_args.raiser
        IN  /\ Len(re_calls) <= Len(cbs)
            /\ \A j \in 1..Len(re_calls) :
                 /\ re_calls[j].ev = "callback"
                 /\ re_calls[j].name = cbs[j].name
                 /\ re_calls[j].cb = cbs[j].cb
                 /\ re_calls[j].root = re_env.root
                 /\ re_calls[j].data_in = re_env.in_data
                 /\ re_calls[j].data_out = re_args.path
                 /\ re_calls[j].config = re_env.config
                 /\ re_calls[j].kwargs =
                        KwargsGet(re_env.config.callback_kwargs, cbs[j].name)
            /\ k = 0 =>
                 /\ re_ret.state = "returned"
                 /\ Len(re_calls) = Len(cbs)
                 /\ Len(re_ret.outputs) = Len(cbs)
                 /\ \A j \in 1..Len(cbs) :
                      /\ re_ret.outputs[j].name = cbs[j].name
                      /\ re_ret.outputs[j].out = <<cbs[j].cb.mod, cbs[j].cb.attr>>
            /\ k > 0 =>
                 /\ re_ret.state = "raised"
                 /\ Len(re_calls) = k
                 /\ re_ret.outputs = <<>>

\* The second of three callbacks has raised.
C9_Witness ==
    /\ Dispatched
    /\ Len(re_env.loaded) = 3
    /\ re_args.raiser = 2
    /\ Len(re_calls) = 2
    /\ re_ret.state = "raised"

\* C10: in a replay, a name that is both in the callbacks passed and in
\* the callbacks of the config is loaded and dispatched as the callback
\* that was passed.
C10_ExplicitWins ==
    Dispatched =>
        \A n \in DictNames(re_args.callbacks) \cap DictNames(re_env.config.callbacks) :
            LET passed == DictGet(re_args.callbacks, n)
            IN  /\ DictGet(re_env.loaded, n) = Fn(passed.mod, passed.attr)
                /\ \A j \in 1..Len(re_calls) :
                     re_calls[j].name = n =>
                        re_calls[j].cb = Fn(passed.mod, passed.attr)

\* The config recorded in the store that the latest replay opened.
Recorded == MetaDataset(re_args.path, fs_meta).meta

\* C11: in a replay that dispatches, the input dataset is the one built
\* from the dataset key recorded in the store, and the config handed to
\* every callback holds that same dataset key.
C11_DatasetKeyKept ==
    Dispatched =>
        /\ re_env.in_data = Recorded.dataset
        /\ re_env.config.dataset = Recorded.dataset
        /\ \A j \in 1..Len(re_calls) :
             /\ re_calls[j].data_in = Recorded.dataset
             /\ re_calls[j].config.dataset = Recorded.dataset

\* The directory in which the direct call of save_output stored the
\* example at batch position q, and the partition values of that example.
FieldsLeft(c) == SelectSeq(c.example, LAMBDA e : e.n \notin Range(c.sub_dir_keys))
DirOf(c, q) == dirname(c.res.writes[(q - 1) * Len(FieldsLeft(c)) + 1].path)
PartOf(c, q) ==
    [j \in 1..Len(c.sub_dir_keys) |-> FieldVals(c.example, c.sub_dir_keys[j])[q]]

\* C12: save_output stores two examples of a batch under the same
\* subdirectory exactly when their partition-key values are all equal.
C12_PartitionDirs ==
    (so_call.done /\ so_call.res.ok) =>
        \A q1, q2 \in 1..Len(so_call.index) :
            (PartOf(so_call, q1) = PartOf(so_call, q2))
                <=> (DirOf(so_call, q1) = DirOf(so_call, q2))

\* The path at which the example at position q of the call c is to be
\* found for the field named f: the root, one "key:value" segment per
\* partition key ("/" in it replaced), then f_<index in six digits>.<ext>.
RECURSIVE ExpectedDir(_, _, _)
ExpectedDir(c, q, m) ==
    IF m = 0 THEN c.root
    ELSE ExpectedDir(c, q, m - 1) \o sSlash
         \o ReplaceSlash(c.sub_dir_keys[m] \o <<":">> \o PartOf(c, q)[m])
ExpectedExt(datum) ==
    IF datum.t = "str" THEN sTxt
    ELSE IF Len(datum.shape) = 3 /\ datum.shape[3] \in {1, 3, 4} THEN sPng ELSE sNpy
ExpectedPath(c, q, f) ==
    ExpectedDir(c, q, Len(c.sub_dir_keys)) \o sSlash \o FieldsLeft(c)[f].n \o <<"_">>
    \o Zeros(6 - Len(NatStr(c.index[q]))) \o NatStr(c.index[q]) \o <<".">>
    \o ExpectedExt(FieldsLeft(c)[f].v[q])
Supported(c) ==
    \A f \in 1..Len(FieldsLeft(c)), q \in 1..Len(c.index) :
        FieldsLeft(c)[f].v[q].t \in {"ndarray", "str"}

\* C13: a call of save_output whose values are arrays or text returns
\* normally; the value of every remaining field at every batch position is
\* then found at its path, and the dict returned for an index has one entry
\* per remaining field, keyed "field:loader" and holding the path of a
\* position with that index.
C13_StoredAtPath ==
    (so_call.done /\ Supported(so_call)) =>
        /\ so_call.res.ok
        /\ \A q \in 1..Len(so_call.index), f \in 1..Len(FieldsLeft(so_call)) :
             /\ ExpectedPath(so_call, q, f) \in DOMAIN so_call.files
             /\ so_call.files[ExpectedPath(so_call, q, f)].datum
                    = FieldsLeft(so_call)[f].v[q]
        /\ DOMAIN so_call.res.path_dicts = Range(so_call.index)
        /\ \A i \in Range(so_call.index) :
             LET pd == so_call.res.path_dicts[i]
             IN  /\ Len(pd) = Len(FieldsLeft(so_call))
                 /\ \A f \in 1..Len(pd) :
                      \E q \in 1..Len(so_call.index) :
                         /\ so_call.index[q] = i
                         /\ pd[f].path = ExpectedPath(so_call, q, f)
                         /\ SubSeq(pd[f].k, 1, Len(FieldsLeft(so_call)[f].n) + 1)
                                = FieldsLeft(so_call)[f].n \o <<":">>
                         /\ Len(pd[f].k) > Len(FieldsLeft(so_call)[f].n) + 1

\* C14: save_example saves a 3-D array with 1, 3 or 4 channels as png with
\* the loader "image", any other array as npy with the loader "np", and
\* text as txt with some loader name; a value of another type raises the
\* unsupported-type error and writes nothing.
C14_ThreeKinds ==
    se_call.done =>
        LET x == se_call.datum
            r == se_call.res
            is_image == x.t = "ndarray" /\ Len(x.shape) = 3 /\ x.shape[3] \in {1, 3, 4}
        IN  /\ is_image =>
                 /\ r.ok /\ r.path = se_call.savepath \o sPng /\ r.loader = sImage
                 /\ se_call.written = {r.path}
            /\ (x.t = "ndarray" /\ ~is_image) =>
                 /\ r.ok /\ r.path = se_call.savepath \o sNpy /\ r.loader = sNp
                 /\ se_call.written = {r.path}
            /\ x.t = "str" =>
                 /\ r.ok /\ r.path = se_call.savepath \o sTxt /\ r.loader # <<>>
                 /\ se_call.written = {r.path}
            /\ x.t = "other" =>
                 /\ ~r.ok /\ se_call.err = "NotImplementedError"
                 /\ se_call.written = {}

\* C15: in the one epoch of Spec, the files an after_step writes are
\* written once each in that step and did not exist before it.
C15_WrittenOnce ==
    [][(\E c \in StepKinds : AfterStep(c)) =>
          LET w == StepOut(last_step').writes
          IN  /\ \A m1, m2 \in 1..Len(w) : w[m1].path = w[m2].path => m1 = m2
              /\ \A m \in 1..Len(w) : w[m].path \notin DOMAIN fs_files]_vars

\* The indices of the dataset.
InRange(i) == i \in 0..(DatasetLen - 1)

\* The label array file f as it was before the step, all slots at the fill
\* value if the step created it.
ArrBefore(f) ==
    IF f \in DOMAIN fs_labels THEN fs_labels[f]
    ELSE NewArray(f.shape[1], Tail(f.shape), f.dtype)

\* C16: every file an after_step writes is the file of a dataset index in
\* 0..len-1, and every label slot it changes is the slot of such an index
\* of its batch.
C16_IndexInRange ==
    [][(\E c \in PlainKinds : AfterStep(c)) =>
          /\ \A m \in 1..Len(StepOut(last_step').writes) :
               InRange(StepOut(last_step').writes[m].idx)
          /\ \A f \in DOMAIN fs_labels' :
               \A i \in 0..(f.shape[1] - 1) :
                  fs_labels'[f].data[i] # ArrBefore(f).data[i] =>
                     (InRange(i) /\ i \in Range(idxs))]_vars

\* The file name of path p: what follows its last "/".
Basename(p) ==
    LET slashes == {j \in 1..Len(p) : p[j] = "/"}
    IN  SubSeq(p, (IF slashes = {} THEN 0 ELSE MaxOf(slashes)) + 1, Len(p))

\* C17: with the partition key "c" and the labels key "labels", every
\* artifact file is a file of the remaining field "im": it is named
\* im_<index>.<ext>, holds one of the arrays given for "im", and lies in
\* the directory <save_root>/c:<partition value>; the label values are in
\* label arrays once a step has returned.
C17_OnlyRemainingFields ==
    /\ \A p \in DOMAIN fs_files :
         /\ SubSeq(Basename(p), 1, Len(fIm) + 1) = fIm \o <<"_">>
         /\ fs_files[p].datum.t = "ndarray"
         /\ fs_files[p].datum \in
                {StepData(MaxBatch, dat)[q] : q \in 1..MaxBatch, dat \in {"image", "array"}}
         /\ \E v \in {PartShort, PartLong} :
               dirname(p) = save_root \o sSlash \o fC \o <<":">> \o v
    /\ (StepRan(last_step) /\ last_step.ok) =>
         \A j \in 1..Len(StepResult(Len(last_step.index), last_step.kind[1],
                                    last_step.kind[2], last_step.kind[3]).labels) :
            StepResult(Len(last_step.index), last_step.kind[1], last_step.kind[2],
                       last_step.kind[3]).labels[j].k \in DOMAIN label_arrs.d

\* A step with label values and the partition value "bb" has returned and
\* left files.
C17_Witness ==
    /\ StepRan(last_step) /\ last_step.ok
    /\ last_step.kind[2] = "long"
    /\ kSc \in DOMAIN label_arrs.d
    /\ \E p \in DOMAIN fs_files :
          dirname(p) = save_root \o sSlash \o fC \o <<":">> \o PartLong

\* C18: a dotted callback reference that cannot be resolved makes
\* load_callbacks raise.  At construction no hook comes to exist: no callback
\* has run and no artifact, label array or descriptor is written.  At replay
\* the call raises in load_callbacks and none of the callbacks has run, also
\* when the other references resolve.
Unresolvable(callbacks) ==
    \E j \in 1..Len(callbacks) : ResolveFails(callbacks[j].cb)
C18_LoadFailsFirst ==
    /\ Unresolvable(cb_paths) =>
          /\ phase = "unbuilt"
          /\ cbacks = <<>>
          /\ log = <<>>
          /\ fs_dirs = {}
          /\ fs_files = EmptyDict
          /\ fs_labels = EmptyDict
          /\ fs_meta = EmptyDict
    /\ (re_ret.state # "none" /\ re_ret.at # "MetaDataset"
            /\ Unresolvable(re_callbacks)) =>
          /\ re_ret.state = "raised"
          /\ re_ret.at = "load_callbacks"
          /\ re_calls = <<>>
          /\ re_ret.outputs = <<>>
C18_Witness ==
    /\ phase = "unbuilt"
    /\ Len(cb_paths) >= 2
    /\ Unresolvable(cb_paths)
    /\ \E j \in 1..Len(cb_paths) : ~ResolveFails(cb_paths[j].cb)

\* C19: at_exception called while the hook is idle, before the first
\* before_epoch or between an after_epoch that returned and the next
\* before_epoch, writes no descriptor and leaves every descriptor as it is.
C19_IdleExceptionWritesNothing ==
    [][(phase = "idle" /\ AtException) => fs_meta' = fs_meta]_vars

\* C20: decompose_name applied to the file name {field}_{index:06d}.{ext}
\* returns (index, field, ext), for field names with "_" too: for the names
\* built from a field, an index below 10^6 and an extension, and for the
\* name of every file a call of save_output wrote.
C20_DecomposeRoundTrip ==
    /\ dn_call.done =>
          dn_call.res = [ok |-> TRUE, index |-> dn_call.index,
                         datum_name |-> dn_call.field, ending |-> dn_call.ext]
    /\ so_call.done =>
          \A m \in 1..Len(so_call.res.writes) :
             LET w == so_call.res.writes[m]
                 r == decompose_name(Basename(w.path))
             IN  /\ r.ok
                 /\ r.index = w.idx
                 /\ r.datum_name = Split(w.key, ":")[1]
                 /\ r.ending \in NameExts
C20_Witness ==
    /\ dn_call.done
    /\ dn_call.field = fSeg
    /\ dn_call.index = 999999
    /\ dn_call.res.ok

\* C23: a replay of the store of a completed epoch hands each callback the
\* root after_epoch handed it, the parent directory of the store, whether
\* the store path is passed with a trailing "/" or without.
C23_ReplayRoot ==
    Dispatched => \A j \in 1..Len(re_calls) : re_calls[j].root = root

\* C22: the callbacks of a hook are those of the names passed to its
\* construction and of the names in its own config, and no others, however
\* many hooks were constructed before it; the same for the callbacks a
\* replay dispatches.
C22_OwnCallbacks ==
    /\ ctor.done =>
          DictNames(cb_paths) = DictNames(ctor.callbacks) \cup DictNames(ctor.cfg.callbacks)
    /\ (ctor.done /\ phase # "unbuilt") =>
          DictNames(cbacks) = DictNames(ctor.callbacks) \cup DictNames(ctor.cfg.callbacks)
    /\ Dispatched =>
          DictNames(re_callbacks) =
             DictNames(re_args.callbacks) \cup DictNames(re_env.config.callbacks)

\* C21: a step whose result at the keypath is None or missing switches a
\* TemplateEvalHook off; while it is off, until the next before_epoch, no
\* step keeps indices or writes artifacts or label slots, after_epoch
\* writes no descriptor and runs no callback, at_exception writes no
\* descriptor; before_epoch switches it on again.
C21_DisabledUntilNextEpoch ==
    [][/\ (phase = "step" /\ phase' = "epoch" /\ is_none(last_step'.kind))
            => active' = "False"
       /\ (active = "False" /\ ~(phase = "idle" /\ phase' = "epoch"))
            => active' = "False"
       /\ active' = "False"
            => /\ idxs' = idxs
               /\ fsvars' = fsvars
               /\ label_arrs' = label_arrs
               /\ log' = log
               /\ attrs' = attrs
       /\ (phase = "idle" /\ phase' = "epoch") => active' = "True"]_vars
C21_Witness ==
    /\ active = "False"
    /\ phase = "idle"
    /\ nsteps = MaxSteps
    /\ nepochs = MaxEpochs
    /\ fs_files # EmptyDict
    /\ save_root \notin DOMAIN fs_meta
    /\ \E d \in DOMAIN fs_meta : d # save_root

====
